---- MODULE Spec2Model ----
(***************************************************************************)
(* Car-bon backend: the OBD-II frame decoder (backend/obdparse.py), the    *)
(* emission calculators and trip summary (backend/carbcalc.py) and the     *)
(* request handlers (backend/app.py).                                      *)
(*                                                                         *)
(* Every operation of the backend is a stateless call.  A behaviour of the *)
(* model is one call: the initial state holds the call and its argument,   *)
(* the action of the called operation computes what the code returns (or   *)
(* the exception that leaves it) and stores it in ret.                     *)
(*                                                                         *)
(* Python values are records tagged by t: "None", "num" (an exact          *)
(* rational n/d in lowest terms; binary floating point error is not        *)
(* modelled), "str", "dict", and "raise" for an exception that propagates  *)
(* out of the function.  Strings that the code inspects are sequences of   *)
(* one-character strings.                                                  *)
(***************************************************************************)
EXTENDS Integers, Sequences, FiniteSets, TLC

VARIABLES call, pc, ret

vars == <<call, pc, ret>>

(***************************************************************************)
(* Bounds of the model.                                                    *)
(***************************************************************************)
\* tokens in a decoded frame
MaxTokens == 4
\* frames in one channel array of a session
MaxFrames == 2
\* samples in a trip
MaxSamples == 2

(***************************************************************************)
(* Python values.                                                          *)
(***************************************************************************)
NoneVal == [t |-> "None"]

Raise(e) == [t |-> "raise", exc |-> e]

IsRaise(v) == v.t = "raise"

IsNum(v) == v.t = "num"

Str(s) == [t |-> "str", s |-> s]

Abs(x) == IF x < 0 THEN -x ELSE x

RECURSIVE GCD(_, _)
GCD(a, b) == IF b = 0 THEN a ELSE GCD(b, a % b)

LowestTerms(n, d, g) == [t |-> "num", n |-> n \div g, d |-> d \div g]

\* the number n/d (d > 0) in lowest terms
Rat(n, d) == LowestTerms(n, d, GCD(Abs(n), d))

Num(i) == [t |-> "num", n |-> i, d |-> 1]

RAddOver(x, y, g) ==
    Rat(x.n * (y.d \div g) + y.n * (x.d \div g), (x.d \div g) * y.d)

\* x + y
RAdd(x, y) == RAddOver(x, y, GCD(x.d, y.d))

RMulOver(x, y, g1, g2) ==
    Rat((x.n \div g1) * (y.n \div g2), (x.d \div g2) * (y.d \div g1))

\* x * y, reduced crosswise before the products are taken
RMul(x, y) == RMulOver(x, y, GCD(Abs(x.n), y.d), GCD(Abs(y.n), x.d))

\* x / y for y > 0
RDiv(x, y) == RMul(x, [t |-> "num", n |-> y.d, d |-> y.n])

\* x > 0
RPos(x) == x.n > 0

\* Python truthiness of None, a number or a string
Truthy(v) ==
    CASE v.t = "None" -> FALSE
      [] v.t = "num"  -> v.n # 0
      [] v.t = "str"  -> Len(v.s) > 0
      [] OTHER        -> TRUE

(***************************************************************************)
(* Characters and the str methods used by the decoder.                     *)
(***************************************************************************)
LowerLetters ==
    <<"a", "b", "c", "d", "e", "f", "g", "h", "i", "j", "k", "l", "m",
      "n", "o", "p", "q", "r", "s", "t", "u", "v", "w", "x", "y", "z">>

UpperLetters ==
    <<"A", "B", "C", "D", "E", "F", "G", "H", "I", "J", "K", "L", "M",
      "N", "O", "P", "Q", "R", "S", "T", "U", "V", "W", "X", "Y", "Z">>

DecDigits == <<"0", "1", "2", "3", "4", "5", "6", "7", "8", "9">>

Range(s) == {s[i] : i \in DOMAIN s}

IndexOf(s, c) == CHOOSE i \in DOMAIN s : s[i] = c

Whitespace == {" ", "\t"}

\* str.upper() of one character
UpperChar(c) ==
    IF c \in Range(LowerLetters) THEN UpperLetters[IndexOf(LowerLetters, c)]
    ELSE c

\* str.upper()
Upper(s) == [i \in DOMAIN s |-> UpperChar(s[i])]

\* str.isalnum() on ASCII
IsAlnum(s) ==
    /\ Len(s) > 0
    /\ \A i \in DOMAIN s :
          s[i] \in Range(LowerLetters) \cup Range(UpperLetters) \cup Range(DecDigits)

Flush(acc, cur) == IF cur = <<>> THEN acc ELSE Append(acc, cur)

\* str.split(): the maximal runs of non-whitespace characters
RECURSIVE SplitFrom(_, _, _, _)
SplitFrom(s, i, cur, acc) ==
    IF i > Len(s) THEN Flush(acc, cur)
    ELSE IF s[i] \in Whitespace THEN SplitFrom(s, i + 1, <<>>, Flush(acc, cur))
    ELSE SplitFrom(s, i + 1, Append(cur, s[i]), acc)

Split(s) == SplitFrom(s, 1, <<>>, <<>>)

(***************************************************************************)
(* int(tok, 16): an optional sign, an optional 0x / 0X prefix (which one   *)
(* underscore may follow), then hex digits that single underscores may     *)
(* separate.  Anything else raises ValueError.                             *)
(***************************************************************************)
HexLetters == {"A", "B", "C", "D", "E", "F"}

IsHexDigit(c) == c \in Range(DecDigits) \/ UpperChar(c) \in HexLetters

HexDigitVal(c) ==
    IF c \in Range(DecDigits) THEN IndexOf(DecDigits, c) - 1
    ELSE 9 + IndexOf(UpperLetters, UpperChar(c))

Drop(s, k) == SubSeq(s, k + 1, Len(s))

HasSign(tok) == Len(tok) > 0 /\ tok[1] \in {"+", "-"}

StripSign(tok) == IF HasSign(tok) THEN Drop(tok, 1) ELSE tok

HasPrefix(u) == Len(u) >= 2 /\ u[1] = "0" /\ u[2] \in {"x", "X"}

StripPrefix(u) ==
    IF ~HasPrefix(u) THEN u
    ELSE IF Len(u) > 2 /\ u[3] = "_" THEN Drop(u, 3)
    ELSE Drop(u, 2)

\* the digits of tok once the sign and the base prefix are taken off
HexBody(tok) == StripPrefix(StripSign(tok))

HexBodyOk(b) ==
    /\ Len(b) > 0
    /\ IsHexDigit(b[1])
    /\ IsHexDigit(b[Len(b)])
    /\ \A i \in DOMAIN b : IsHexDigit(b[i]) \/ b[i] = "_"
    /\ \A i \in 1..(Len(b) - 1) : ~(b[i] = "_" /\ b[i + 1] = "_")

RECURSIVE HexFold(_, _, _)
HexFold(b, i, acc) ==
    IF i > Len(b) THEN acc
    ELSE IF b[i] = "_" THEN HexFold(b, i + 1, acc)
    ELSE HexFold(b, i + 1, acc * 16 + HexDigitVal(b[i]))

Signed(tok, v) == IF HasSign(tok) /\ tok[1] = "-" THEN -v ELSE v

Int16Of(tok, b) ==
    IF ~HexBodyOk(b) THEN Raise("ValueError") ELSE Num(Signed(tok, HexFold(b, 1, 0)))

Int16(tok) == Int16Of(tok, HexBody(tok))

\* int(parts[i], 16) with the list index i counted from 0: IndexError past the end
IntItem(parts, i) ==
    IF i + 1 > Len(parts) THEN Raise("IndexError") ELSE Int16(parts[i + 1])

(***************************************************************************)
(* obdparse.parse_obd_response                                             *)
(***************************************************************************)
Reading(pid, label, value, unit) ==
    [t |-> "dict", pid |-> pid, label |-> label, value |-> value, unit |-> unit]

\* a label is the literal text and, for the f-strings, the token put into it
Label(text) == <<text, <<>>>>

\* ((A * 256) + B) / den once both bytes are converted, left to right
TwoByteValue(A, B, den) ==
    IF IsRaise(A) THEN A
    ELSE IF IsRaise(B) THEN B
    ELSE Rat((A.n * 256) + B.n, den)

\* (A * 100) / 255
Percent(A) == IF IsRaise(A) THEN A ELSE Rat(A.n * 100, 255)

\* return {...} unless computing the value raised
ReadingOf(pid, label, value, unit) ==
    IF IsRaise(value) THEN value ELSE Reading(pid, label, value, unit)

Mode01Rpm(parts) ==
    ReadingOf(<<"0", "1", "0", "C">>, Label("Engine RPM"),
              TwoByteValue(IntItem(parts, 2), IntItem(parts, 3), 4), "rpm")

Mode01Speed(parts) ==
    ReadingOf(<<"0", "1", "0", "D">>, Label("Vehicle Speed"), IntItem(parts, 2), "km/h")

Mode01Maf(parts) ==
    ReadingOf(<<"0", "1", "1", "0">>, Label("Mass Air Flow"),
              TwoByteValue(IntItem(parts, 2), IntItem(parts, 3), 100), "g/s")

Mode01FuelLevel(parts) ==
    ReadingOf(<<"0", "1", "2", "F">>, Label("Fuel Level"),
              Percent(IntItem(parts, 2)), "%")

\* an unknown PID returns nothing
Mode01UnknownDropped(pid) == NoneVal

Mode01Unknown(pid) ==
    Reading(<<"0", "1">> \o pid, <<"Unknown PID ", pid>>, NoneVal, "")

AppendChr(acc, code) == IF IsRaise(code) THEN code ELSE Str(Append(acc.s, code.n))

\* chr(int(b, 16)) for b in parts[3:] if len(b) == 2 and b.isalnum();
\* a character of the VIN is held as its code point
RECURSIVE VinBytes(_, _, _)
VinBytes(parts, i, acc) ==
    IF IsRaise(acc) THEN acc
    ELSE IF i > Len(parts) THEN acc
    ELSE IF Len(parts[i]) = 2 /\ IsAlnum(parts[i])
         THEN VinBytes(parts, i + 1, AppendChr(acc, Int16(parts[i])))
         ELSE VinBytes(parts, i + 1, acc)

Mode09Vin(parts) ==
    ReadingOf(<<"0", "9", "0", "2">>, Label("VIN"), VinBytes(parts, 4, Str(<<>>)), "")

Mode09Unknown(pid) ==
    Reading(<<"0", "9">> \o pid, <<"Unknown Mode 09 PID ", pid>>, NoneVal, "")

OtherMode(mode, pid) ==
    Reading(mode \o pid, <<"Unsupported Mode ", mode>>, NoneVal, "")

Mode01(parts, pid) ==
    CASE pid = <<"0", "C">> -> Mode01Rpm(parts)
      [] pid = <<"0", "D">> -> Mode01Speed(parts)
      [] pid = <<"1", "0">> -> Mode01Maf(parts)
      [] pid = <<"2", "F">> -> Mode01FuelLevel(parts)
      [] OTHER              -> Mode01Unknown(pid)

Mode09(parts, pid) ==
    IF pid = <<"0", "2">> THEN Mode09Vin(parts) ELSE Mode09Unknown(pid)

Dispatch(parts, mode, pid) ==
    IF mode = <<"4", "1">> THEN Mode01(parts, pid)
    ELSE IF mode = <<"4", "9">> THEN Mode09(parts, pid)
    ELSE OtherMode(mode, pid)

Decode(parts) ==
    IF Len(parts) < 3 THEN NoneVal
    ELSE Dispatch(parts, Upper(parts[1]), Upper(parts[2]))

\* the body of the try block: the Reading, None, or the exception raised in it
ParseBody(response) == Decode(Split(response))

\* no except clause: the exception leaves the function
ExceptNoneMissing(result) == result

\* except Exception: return None
ExceptNone(result) == IF IsRaise(result) THEN NoneVal ELSE result

parse_obd_response(response) == ExceptNone(ParseBody(response))

(***************************************************************************)
(* carbcalc: the fuel property table and the calculators.                  *)
(***************************************************************************)
\* FUEL_PROPERTIES; the decimal constants are written as exact fractions
FUEL_PROPERTIES ==
    [gasoline |-> [afr |-> Rat(147, 10), density |-> Rat(745, 1000),
                   co2_factor |-> Rat(23477, 10000)],
     diesel   |-> [afr |-> Rat(145, 10), density |-> Rat(832, 1000),
                   co2_factor |-> Rat(26840, 10000)],
     ethanol  |-> [afr |-> Rat(90, 10), density |-> Rat(789, 1000),
                   co2_factor |-> Rat(1909, 1000)],
     electric |-> [grid_factor |-> Rat(4, 10)]]

\* FUEL_PROPERTIES.get(fuel_type.lower(), FUEL_PROPERTIES["gasoline"]);
\* fuel type names are drawn in lower case
FuelProps(fuel_type) ==
    IF fuel_type \in DOMAIN FUEL_PROPERTIES THEN FUEL_PROPERTIES[fuel_type]
    ELSE FUEL_PROPERTIES["gasoline"]

\* the returned dict: co2_kg_per_hour = fuel_L_per_hour * co2_factor
Rates(fuel_L_per_hour, co2_factor) ==
    [fuel_L_per_hour |-> fuel_L_per_hour,
     co2_kg_per_hour |-> RMul(fuel_L_per_hour, co2_factor)]

\* maf / afr / 1000.0 / density * 3600.0
FuelLph(maf_gps, props) ==
    RMul(RDiv(RDiv(RDiv(maf_gps, props.afr), Num(1000)), props.density), Num(3600))

MafRates(maf_gps, props) == Rates(FuelLph(maf_gps, props), props.co2_factor)

calculate_from_maf(maf_gps, fuel_type) == MafRates(maf_gps, FuelProps(fuel_type))

calculate_from_fuel_rate(fuel_rate_Lph, fuel_type) ==
    Rates(fuel_rate_Lph, FuelProps(fuel_type).co2_factor)

\* factor = region_factor or FUEL_PROPERTIES["electric"]["grid_factor"]
ElectricFactor(region_factor) ==
    IF Truthy(region_factor) THEN region_factor
    ELSE FUEL_PROPERTIES["electric"].grid_factor

calculate_electric(energy_kWh, region_factor) ==
    [t |-> "dict", energy_kWh |-> energy_kWh,
     co2_kg |-> RMul(energy_kWh, ElectricFactor(region_factor))]

\* s.get(key, default) of a sample
Get(s, key, default) == IF key \in DOMAIN s THEN s[key] ELSE default

\* the sample has a fuel field; without one the loop continues to the next sample
HasFuel(s) == "fuel_rate_Lph" \in DOMAIN s \/ "maf_gps" \in DOMAIN s

\* fuel_rate_Lph is used when present, maf_gps otherwise
SampleRates(s, fuel_type) ==
    IF "fuel_rate_Lph" \in DOMAIN s
    THEN calculate_from_fuel_rate(s["fuel_rate_Lph"], fuel_type)
    ELSE calculate_from_maf(s["maf_gps"], fuel_type)

\* the sample counts towards the speed average
CountsSpeed(s) == "speed_kph" \in DOMAIN s

\* the totals after a sample that carries a fuel field
Accumulate(acc, s, dt, calc) ==
    [total_fuel_L |-> RAdd(acc.total_fuel_L,
                           RMul(RDiv(calc.fuel_L_per_hour, Num(3600)), dt)),
     total_co2_kg |-> RAdd(acc.total_co2_kg,
                           RMul(RDiv(calc.co2_kg_per_hour, Num(3600)), dt)),
     total_time_s |-> RAdd(acc.total_time_s, dt),
     speed_sum    |-> IF CountsSpeed(s) THEN RAdd(acc.speed_sum, s["speed_kph"])
                      ELSE acc.speed_sum,
     speed_count  |-> IF CountsSpeed(s) THEN acc.speed_count + 1
                      ELSE acc.speed_count]

\* the speed is counted before the fuel fields are looked at
TripStepSpeedFirst(acc, s, fuel_type) ==
    IF HasFuel(s) THEN Accumulate(acc, s, Get(s, "dt", Num(1)), SampleRates(s, fuel_type))
    ELSE IF CountsSpeed(s)
    THEN [acc EXCEPT !.speed_sum = RAdd(acc.speed_sum, s["speed_kph"]),
                     !.speed_count = acc.speed_count + 1]
    ELSE acc

\* one iteration of the loop over the samples
TripStep(acc, s, fuel_type) ==
    IF ~HasFuel(s) THEN acc
    ELSE Accumulate(acc, s, Get(s, "dt", Num(1)), SampleRates(s, fuel_type))

RECURSIVE TripLoop(_, _, _, _)
TripLoop(samples, i, acc, fuel_type) ==
    IF i > Len(samples) THEN acc
    ELSE TripLoop(samples, i + 1, TripStep(acc, samples[i], fuel_type), fuel_type)

TripStart ==
    [total_fuel_L |-> Num(0), total_co2_kg |-> Num(0), total_time_s |-> Num(0),
     speed_sum |-> Num(0), speed_count |-> 0]

\* avg_speed = speed_sum / speed_count if speed_count else 0.0
TripResult(acc) ==
    [t |-> "dict",
     total_fuel_L  |-> acc.total_fuel_L,
     total_co2_kg  |-> acc.total_co2_kg,
     trip_time_s   |-> acc.total_time_s,
     avg_speed_kph |-> IF acc.speed_count # 0
                       THEN RDiv(acc.speed_sum, Num(acc.speed_count))
                       ELSE Num(0)]

summarize_trip(samples, fuel_type) ==
    TripResult(TripLoop(samples, 1, TripStart, fuel_type))

(***************************************************************************)
(* carbcalc.calculate_from_speed_rpm_load: app.py imports it, its code is  *)
(* not among the sources; it follows the design document (section 4.2)     *)
(* with the defaults displacement 1.5 L, air density 1.2 and gasoline.     *)
(***************************************************************************)
SpeedDensityMaf(rpm, load_pct) ==
    RDiv(RMul(RMul(RMul(rpm, RDiv(load_pct, Num(100))), Rat(15, 10)), Rat(12, 10)),
         Num(120))

Estimate(maf_gps, calc) ==
    [t |-> "dict",
     fuel_L_per_hour |-> calc.fuel_L_per_hour,
     co2_kg_per_hour |-> calc.co2_kg_per_hour,
     maf_g_per_s     |-> maf_gps]

EstimateFromMaf(maf_gps) == Estimate(maf_gps, calculate_from_maf(maf_gps, "gasoline"))

calculate_from_speed_rpm_load(speed_kmh, rpm, load_pct) ==
    EstimateFromMaf(SpeedDensityMaf(rpm, load_pct))

(***************************************************************************)
(* app.process_session and app.receive_obd_data                            *)
(***************************************************************************)
\* the test that lets a parsed frame into a channel's list of values:
\* `if parsed and "value" in parsed`
KeepsValue(parsed) == parsed.t = "dict" /\ "value" \in DOMAIN parsed

AppendValue(vals, parsed) ==
    IF KeepsValue(parsed) THEN Append(vals, parsed.value) ELSE vals

\* for h in array: parsed = parse_obd_response(h); if ...: vals.append(parsed["value"])
RECURSIVE ChannelValues(_, _, _)
ChannelValues(array, i, vals) ==
    IF i > Len(array) THEN vals
    ELSE ChannelValues(array, i + 1, AppendValue(vals, parse_obd_response(array[i])))

\* sum(vals): 0 + vals[0] + ... ; adding None or a str to a number raises TypeError
RECURSIVE PySum(_, _, _)
PySum(vals, i, acc) ==
    IF i > Len(vals) THEN acc
    ELSE IF ~IsNum(vals[i]) THEN Raise("TypeError")
    ELSE PySum(vals, i + 1, RAdd(acc, vals[i]))

DivideBy(total, count) == IF IsRaise(total) THEN total ELSE RDiv(total, Num(count))

\* sum(vals) / len(vals)
Mean(vals) == DivideBy(PySum(vals, 1, Num(0)), Len(vals))

\* sum(speed_vals) / len(speed_vals) if speed_vals else 0
MeanOrZero(vals) == IF Len(vals) > 0 THEN Mean(vals) ELSE Num(0)

RoundTenths(x, q, r) ==
    IF 2 * r < x.d THEN Rat(q, 10)
    ELSE IF 2 * r > x.d THEN Rat(q + 1, 10)
    ELSE Rat(q + (q % 2), 10)

\* round(x, 1): to the nearest tenth, a tie to the even tenth
Round1(x) == RoundTenths(x, (x.n * 10) \div x.d, (x.n * 10) % x.d)

\* str(e) of the exception caught in process_session (operand types left out)
ErrorText(e) ==
    IF e.exc = "TypeError" THEN "unsupported operand type(s) for +" ELSE e.exc

Failure(reason) == [t |-> "dict", ok |-> 0, error |-> reason]

\* session.get(key, [])
Channel(session, key) == IF key \in DOMAIN session THEN session[key] ELSE <<>>

\* the averages in the order the code computes them, then the returned dict
Summary(sample_count, avg_rpm, avg_load, avg_speed, timestamp) ==
    IF IsRaise(avg_rpm) THEN avg_rpm
    ELSE IF IsRaise(avg_load) THEN avg_load
    ELSE IF IsRaise(avg_speed) THEN avg_speed
    ELSE [t |-> "dict", ok |-> 1,
          sample_count |-> sample_count,
          averages |-> [rpm |-> Round1(avg_rpm),
                        engine_load |-> Round1(avg_load),
                        speed |-> Round1(avg_speed)],
          emissions |-> calculate_from_speed_rpm_load(avg_speed, avg_rpm, avg_load),
          timestamp |-> timestamp]

\* `if not rpm_vals or not load_vals`, then the averages
Aggregate(rpm_vals, load_vals, speed_vals, timestamp) ==
    IF Len(rpm_vals) = 0 \/ Len(load_vals) = 0 THEN Failure("No valid samples")
    ELSE Summary(Len(rpm_vals), Mean(rpm_vals), Mean(load_vals),
                 MeanOrZero(speed_vals), timestamp)

\* the body of the try block of process_session
SessionBody(session, timestamp) ==
    Aggregate(ChannelValues(Channel(session, "rpm_hex_array"), 1, <<>>),
              ChannelValues(Channel(session, "engine_load_hex_array"), 1, <<>>),
              ChannelValues(Channel(session, "speed_hex_array"), 1, <<>>),
              timestamp)

\* except Exception as e: return {"ok": 0, "error": str(e)}
ExceptFailure(result) ==
    IF IsRaise(result) THEN Failure(ErrorText(result)) ELSE result

process_session(session, timestamp) == ExceptFailure(SessionBody(session, timestamp))

\* the payload field behind each key of parsed_data
HexField == [rpm |-> "rpm_hex", engine_load |-> "engine_load_hex",
             intake_manifold |-> "intake_manifold_hex"]

\* parsed_data[key] = parse_obd_response(payload.<field>) for each truthy field
ParsedData(payload) ==
    [k \in {x \in DOMAIN HexField : Truthy(payload[HexField[x]])} |->
        parse_obd_response(payload[HexField[k]].s)]

\* parsed_data.get(key, {}).get("value", 0)
ParsedValue(parsed_data, key) ==
    IF key \notin DOMAIN parsed_data THEN Num(0)
    ELSE IF parsed_data[key].t # "dict" THEN Raise("AttributeError")
    ELSE parsed_data[key].value

\* payload.speed_kmh or 0
SpeedOf(payload) == IF Truthy(payload.speed_kmh) THEN payload.speed_kmh ELSE Num(0)

SingleResult(parsed_data, speed, emissions, timestamp) ==
    [t |-> "dict", ok |-> 1, parsed |-> parsed_data, speed_kmh |-> speed,
     emissions |-> emissions, timestamp |-> timestamp]

\* `if rpm > 0 and load > 0`: comparing None or a str with 0 raises TypeError
Emissions(parsed_data, rpm, load, speed, timestamp) ==
    IF IsRaise(rpm) THEN rpm
    ELSE IF IsRaise(load) THEN load
    ELSE IF ~IsNum(rpm) THEN Raise("TypeError")
    ELSE IF ~RPos(rpm) THEN SingleResult(parsed_data, speed, NoneVal, timestamp)
    ELSE IF ~IsNum(load) THEN Raise("TypeError")
    ELSE IF ~RPos(load) THEN SingleResult(parsed_data, speed, NoneVal, timestamp)
    ELSE SingleResult(parsed_data, speed,
                      calculate_from_speed_rpm_load(speed, rpm, load), timestamp)

SingleOf(parsed_data, payload, timestamp) ==
    Emissions(parsed_data, ParsedValue(parsed_data, "rpm"),
              ParsedValue(parsed_data, "engine_load"), SpeedOf(payload), timestamp)

\* the single-reading path of receive_obd_data
SingleReading(payload, timestamp) == SingleOf(ParsedData(payload), payload, timestamp)

\* datetime.utcnow().isoformat()
UtcNow == Str(<<"n", "o", "w">>)

\* payload.timestamp or datetime.utcnow().isoformat()
TimestampOf(payload) == IF Truthy(payload.timestamp) THEN payload.timestamp ELSE UtcNow

\* `if payload.session_data`: an empty dict is falsy
HasSession(payload) ==
    payload.session_data.t = "session" /\ DOMAIN payload.session_data.m # {}

receive_obd_data(payload) ==
    IF HasSession(payload)
    THEN process_session(payload.session_data.m, TimestampOf(payload))
    ELSE SingleReading(payload, TimestampOf(payload))

(***************************************************************************)
(* Inputs.                                                                 *)
(***************************************************************************)
ModeTokens ==
    { <<"4", "1">>, <<"4", "9">>, <<"7", "F">>, <<"Z", "Z">>, <<"4">> }

PidTokens ==
    { <<"0", "C">>, <<"0", "c">>, <<"0", "D">>, <<"1", "0">>, <<"2", "F">>,
      <<"0", "4">>, <<"0", "B">>, <<"5", "E">>, <<"0", "2">>,
      <<"F", "F">>, <<"f", "f">>, <<"Q", "Q">>, <<"F", "F", "F">> }

DataTokens ==
    { <<"1", "A">>, <<"F", "8">>, <<"0", "0">>, <<"f", "f">>, <<"Z", "Z">>,
      <<"1", "_", "A">>, <<"-", "1">> }

TokenAt(i) == IF i = 1 THEN ModeTokens ELSE IF i = 2 THEN PidTokens ELSE DataTokens

\* the token lists of exactly n tokens
RECURSIVE TokenListsOf(_)
TokenListsOf(n) ==
    IF n = 0 THEN {<<>>}
    ELSE {Append(s, tok) : s \in TokenListsOf(n - 1), tok \in TokenAt(n)}

TokenLists == UNION {TokenListsOf(n) : n \in 0..MaxTokens}

RECURSIVE Join(_, _)
Join(toks, sep) ==
    IF Len(toks) = 0 THEN <<>>
    ELSE IF Len(toks) = 1 THEN toks[1]
    ELSE toks[1] \o sep \o Join(Tail(toks), sep)

\* a frame as the bridge sends it: single spaces, or padded with blanks and tabs
Frame(toks, padded) ==
    IF padded THEN <<" ">> \o Join(toks, <<" ", "\t">>) \o <<"\t">>
    ELSE Join(toks, <<" ">>)

\* the calls of the decoder; toks records the tokens the frame was written from
ParseCalls ==
    { [op |-> "parse_obd_response", arg |-> Frame(toks, p), toks |-> toks] :
        toks \in TokenLists, p \in BOOLEAN }

Plain(toks) == Frame(toks, FALSE)

SeqsUpTo(S, n) == UNION { [1..k -> S] : k \in 0..n }

\* 1726 rpm, 750 rpm, an unsupported PID, a frame that does not decode
RpmFrames ==
    { Plain(<< <<"4", "1">>, <<"0", "C">>, <<"1", "A">>, <<"F", "8">> >>),
      Plain(<< <<"4", "1">>, <<"0", "C">>, <<"0", "B">>, <<"B", "8">> >>),
      Plain(<< <<"4", "1">>, <<"F", "F">>, <<"0", "0">> >>),
      Plain(<< <<"g", "a", "r", "b", "a", "g", "e">> >>) }

\* engine load (PID 04), a percentage the decoder knows (PID 2F), a short frame
LoadFrames ==
    { Plain(<< <<"4", "1">>, <<"0", "4">>, <<"8", "0">> >>),
      Plain(<< <<"4", "1">>, <<"2", "F">>, <<"8", "0">> >>),
      Plain(<< <<"4", "1">>, <<"0", "4">> >>) }

\* 40 km/h, a speed frame with a byte that is not hex
SpeedFrames ==
    { Plain(<< <<"4", "1">>, <<"0", "D">>, <<"2", "8">> >>),
      Plain(<< <<"4", "1">>, <<"0", "D">>, <<"Z", "Z">> >>) }

Sessions ==
    { [rpm_hex_array |-> r, engine_load_hex_array |-> l, speed_hex_array |-> s] :
        r \in SeqsUpTo(RpmFrames, MaxFrames),
        l \in SeqsUpTo(LoadFrames, MaxFrames),
        s \in SeqsUpTo(SpeedFrames, MaxFrames) }
    \cup
    { [engine_load_hex_array |-> l] : l \in SeqsUpTo(LoadFrames, MaxFrames) }

Stamp == Str(<<"t", "1">>)

EmptySession == [x \in {} |-> <<>>]

Payloads ==
    [rpm_hex : {NoneVal, Str(<<>>)} \cup {Str(f) : f \in RpmFrames},
     engine_load_hex : {NoneVal} \cup {Str(f) : f \in LoadFrames},
     intake_manifold_hex :
        {NoneVal, Str(Plain(<< <<"4", "1">>, <<"0", "B">>, <<"6", "4">> >>))},
     speed_kmh : {NoneVal, Num(0), Num(40)},
     session_data :
        {NoneVal, [t |-> "session", m |-> EmptySession]}
        \cup {[t |-> "session", m |-> m] :
                m \in {x \in Sessions : DOMAIN x = {"engine_load_hex_array"}
                                         /\ Len(x["engine_load_hex_array"]) <= 1}}
        \cup {[t |-> "session",
               m |-> [rpm_hex_array |-> <<r>>, engine_load_hex_array |-> <<l>>,
                      speed_hex_array |-> <<>>]] :
                r \in RpmFrames, l \in LoadFrames},
     timestamp : {NoneVal, Stamp}]

\* a trip sample: a dict with any of the keys maf_gps, fuel_rate_Lph, speed_kph, dt
FieldValues ==
    [maf_gps       |-> {Num(147)},
     fuel_rate_Lph |-> {Num(36)},
     speed_kph     |-> {Num(50), Num(60)},
     dt            |-> {Num(2)}]

\* the dicts over the given keys
RECURSIVE SamplesOver(_)
SamplesOver(keys) ==
    IF keys = {} THEN {[x \in {} |-> Num(0)]}
    ELSE LET k == CHOOSE x \in keys : TRUE
         IN  {[x \in DOMAIN s \cup {k} |-> IF x = k THEN v ELSE s[x]] :
                 s \in SamplesOver(keys \ {k}), v \in FieldValues[k]}

Samples == UNION {SamplesOver(keys) : keys \in SUBSET DOMAIN FieldValues}

Trips ==
    [samples : SeqsUpTo(Samples, MaxSamples), fuel_type : {"gasoline", "diesel", "lpg"}]

ElectricArgs ==
    [energy_kWh : {Num(0), Num(10), Rat(25, 2)},
     region_factor : {NoneVal, Num(0), Rat(1, 2), Num(1)}]

Calls ==
    ParseCalls
    \cup [op : {"process_session"}, arg : [session : Sessions, timestamp : {Stamp}]]
    \cup [op : {"receive_obd_data"}, arg : Payloads]
    \cup [op : {"summarize_trip"}, arg : Trips]
    \cup [op : {"calculate_electric"}, arg : ElectricArgs]

(***************************************************************************)
(* The calls.                                                              *)
(***************************************************************************)
Init ==
    /\ call \in Calls
    /\ pc = "call"
    /\ ret = NoneVal

Return(value) ==
    /\ ret' = value
    /\ pc' = "done"
    /\ UNCHANGED call

ParseObdResponse ==
    /\ pc = "call"
    /\ call.op = "parse_obd_response"
    /\ Return(parse_obd_response(call.arg))

ProcessSession ==
    /\ pc = "call"
    /\ call.op = "process_session"
    /\ Return(process_session(call.arg.session, call.arg.timestamp))

ReceiveObdData ==
    /\ pc = "call"
    /\ call.op = "receive_obd_data"
    /\ Return(receive_obd_data(call.arg))

SummarizeTrip ==
    /\ pc = "call"
    /\ call.op = "summarize_trip"
    /\ Return(summarize_trip(call.arg.samples, call.arg.fuel_type))

CalculateElectric ==
    /\ pc = "call"
    /\ call.op = "calculate_electric"
    /\ Return(calculate_electric(call.arg.energy_kWh, call.arg.region_factor))

Next ==
    \/ ParseObdResponse
    \/ ProcessSession
    \/ ReceiveObdData
    \/ SummarizeTrip
    \/ CalculateElectric

Spec == Init /\ [][Next]_vars

(***************************************************************************)
(* Properties.                                                             *)
(***************************************************************************)
Called(op) == pc = "done" /\ call.op = op

Chars2(a, b) == <<a, b>>

TwoHexDigits(tok) == Len(tok) = 2 /\ IsHexDigit(tok[1]) /\ IsHexDigit(tok[2])

\* the decoded value of a session frame is usable: a Reading with a non-null value
ValidFrame(frame) ==
    parse_obd_response(frame).t = "dict" /\ parse_obd_response(frame).value # NoneVal

ValidFrames(array) == SelectSeq(array, ValidFrame)

\* the non-null decoded values of a channel array, in order
ValidValues(array) ==
    [i \in 1..Len(ValidFrames(array)) |-> parse_obd_response(ValidFrames(array)[i]).value]

SessionArg == call.arg.session

RpmArray == Channel(SessionArg, "rpm_hex_array")

LoadArray == Channel(SessionArg, "engine_load_hex_array")

SpeedArray == Channel(SessionArg, "speed_hex_array")

----------------------------------------------------------------------------
\* C1: parse_obd_response never raises.  A frame of fewer than 3 tokens, and a
\* mode-41 frame with a PID the decoder has a formula for whose consumed data
\* byte is missing or is rejected by the hex conversion, returns None.
C1_Consumed(pid) ==
    IF pid \in {Chars2("0", "C"), Chars2("1", "0")} THEN {3, 4} ELSE {3}

C1_BadByte(toks, pid) ==
    \E i \in C1_Consumed(pid) : IF i > Len(toks) THEN TRUE ELSE IsRaise(Int16(toks[i]))

C1_KnownPids ==
    {Chars2("0", "C"), Chars2("0", "D"), Chars2("1", "0"), Chars2("2", "F")}

C2_Table(mode) ==
    IF mode = Chars2("4", "1") THEN C1_KnownPids ELSE {Chars2("0", "2")}

C2_Prefix(mode) == IF mode = Chars2("4", "1") THEN Chars2("0", "1") ELSE Chars2("0", "9")

C2_UnknownPidIsReading ==
    ( /\ Called("parse_obd_response")
      /\ Len(call.toks) >= 3
      /\ Upper(call.toks[1]) \in {Chars2("4", "1"), Chars2("4", "9")}
      /\ Upper(call.toks[2]) \notin C2_Table(Upper(call.toks[1])) )
    => /\ ret.t = "dict"
       /\ ret.value = NoneVal
       /\ ret.unit = ""
       /\ ret.pid = C2_Prefix(Upper(call.toks[1])) \o Upper(call.toks[2])

\* "41 ff 00" gives pid 01FF with a null value
C2_Witness ==
    /\ Called("parse_obd_response")
    /\ call.toks = <<Chars2("4", "1"), Chars2("f", "f"), Chars2("0", "0")>>
    /\ ret.t = "dict"
    /\ ret.pid = <<"0", "1", "F", "F">>
    /\ ret.value = NoneVal

\* C3: a mode-41 frame with PID 0C, 0D, 04, 0B, 10, 2F or 5E and data bytes in
\* 0..255 decodes to a Reading whose value is the formula of the dispatch table,
\* with the table's label and unit.
C3_TwoByteDen == [x \in {Chars2("0", "C"), Chars2("1", "0"), Chars2("5", "E")} |->
                    IF x = Chars2("0", "C") THEN 4
                    ELSE IF x = Chars2("1", "0") THEN 100 ELSE 20]

C3_Label ==
    (Chars2("0", "C") :> "Engine RPM") @@ (Chars2("0", "D") :> "Vehicle Speed")
    @@ (Chars2("0", "4") :> "Engine Load")
    @@ (Chars2("0", "B") :> "Intake Manifold Pressure")
    @@ (Chars2("1", "0") :> "Mass Air Flow") @@ (Chars2("2", "F") :> "Fuel Level")
    @@ (Chars2("5", "E") :> "Fuel Rate")

C3_Unit ==
    (Chars2("0", "C") :> "rpm") @@ (Chars2("0", "D") :> "km/h")
    @@ (Chars2("0", "4") :> "%") @@ (Chars2("0", "B") :> "kPa")
    @@ (Chars2("1", "0") :> "g/s") @@ (Chars2("2", "F") :> "%")
    @@ (Chars2("5", "E") :> "L/h")

C3_Byte(tok) == ~IsRaise(Int16(tok)) /\ Int16(tok).n \in 0..255

C3_Value(pid, toks) ==
    IF pid \in DOMAIN C3_TwoByteDen
    THEN Rat(Int16(toks[3]).n * 256 + Int16(toks[4]).n, C3_TwoByteDen[pid])
    ELSE IF pid \in {Chars2("0", "4"), Chars2("2", "F")}
    THEN Rat(Int16(toks[3]).n * 100, 255)
    ELSE Int16(toks[3])

C3_TableFormulas ==
    ( /\ Called("parse_obd_response")
      /\ Len(call.toks) >= 3
      /\ Upper(call.toks[1]) = Chars2("4", "1")
      /\ Upper(call.toks[2]) \in DOMAIN C3_Label
      /\ C3_Byte(call.toks[3])
      /\ Upper(call.toks[2]) \in DOMAIN C3_TwoByteDen
            => Len(call.toks) >= 4 /\ C3_Byte(call.toks[4]) )
    => /\ ret.t = "dict"
       /\ ret.value = C3_Value(Upper(call.toks[2]), call.toks)
       /\ ret.label = Label(C3_Label[Upper(call.toks[2])])
       /\ ret.unit = C3_Unit[Upper(call.toks[2])]

\* C4: process_session returns {ok: 0, error: "No valid samples"} whenever the
\* RPM channel or the engine-load channel has no valid decoded value.
C4_NoValidSamples ==
    ( /\ Called("process_session")
      /\ Len(ValidFrames(RpmArray)) = 0 \/ Len(ValidFrames(LoadArray)) = 0 )
    => ret = Failure("No valid samples")

\* C5: frames that fail to decode or decode to a null value are discarded and
\* never abort the aggregation: with a valid frame in the RPM and in the load
\* channel the session succeeds and counts exactly the valid RPM values.
C5_InvalidFramesDiscarded ==
    ( /\ Called("process_session")
      /\ Len(ValidFrames(RpmArray)) > 0
      /\ Len(ValidFrames(LoadArray)) > 0 )
    => /\ ret.ok = 1
       /\ ret.sample_count = Len(ValidFrames(RpmArray))

\* C6: with a valid frame in the RPM and in the load channel, process_session
\* returns ok with each average the mean of that channel's valid values, rounded
\* to one decimal (speed 0 for an empty channel), and the estimate of the
\* speed/rpm/load estimator on the unrounded averages.
C6_Averages ==
    ( /\ Called("process_session")
      /\ Len(ValidFrames(RpmArray)) > 0
      /\ Len(ValidFrames(LoadArray)) > 0 )
    => /\ ret.ok = 1
       /\ ret.averages.rpm = Round1(Mean(ValidValues(RpmArray)))
       /\ ret.averages.engine_load = Round1(Mean(ValidValues(LoadArray)))
       /\ ret.averages.speed = Round1(MeanOrZero(ValidValues(SpeedArray)))
       /\ ret.emissions =
            calculate_from_speed_rpm_load(MeanOrZero(ValidValues(SpeedArray)),
                                          Mean(ValidValues(RpmArray)),
                                          Mean(ValidValues(LoadArray)))

\* C7: receive_obd_data always returns a structured response, never an
\* exception: ok false with an error when a supplied frame fails to decode, ok
\* true when the supplied frames decode and one has an unsupported PID.
C7_SuppliedFrames ==
    {call.arg[f].s : f \in {x \in {"rpm_hex", "engine_load_hex", "intake_manifold_hex"} :
                               Truthy(call.arg[x])}}

C7_NoFaultEscapes ==
    Called("receive_obd_data") =>
        /\ ret.t = "dict"
        /\ ( /\ ~HasSession(call.arg)
             /\ \E f \in C7_SuppliedFrames : parse_obd_response(f) = NoneVal )
           => ret.ok = 0 /\ "error" \in DOMAIN ret
        /\ ( /\ ~HasSession(call.arg)
             /\ \A f \in C7_SuppliedFrames : parse_obd_response(f) # NoneVal
             /\ \E f \in C7_SuppliedFrames : parse_obd_response(f).value = NoneVal )
           => ret.ok = 1

\* C8: a frame of at least 3 tokens whose mode or PID token is not two hex
\* digits is a decode failure, so every Reading has a pid of 4 hex characters.
C8_ModeAndPidValidated ==
    Called("parse_obd_response") =>
        /\ ( /\ Len(call.toks) >= 3
             /\ ~TwoHexDigits(call.toks[1]) \/ ~TwoHexDigits(call.toks[2]) )
           => ret = NoneVal
        /\ ret.t = "dict"
           => Len(ret.pid) = 4 /\ \A i \in 1..4 : IsHexDigit(ret.pid[i])

\* C9 as stated: avg_speed_kph is the mean of speed_kph over all samples that
\* report it, whether or not they carry a fuel field; samples without a fuel
\* field add nothing to the totals.
C9_ReportsSpeed(s) == "speed_kph" \in DOMAIN s

C9_CarriesFuel(s) == "fuel_rate_Lph" \in DOMAIN s \/ "maf_gps" \in DOMAIN s

C9_Contributes(s) == C9_ReportsSpeed(s) /\ C9_CarriesFuel(s)

RECURSIVE C9_SpeedSum(_)
C9_SpeedSum(samples) ==
    IF Len(samples) = 0 THEN Num(0)
    ELSE RAdd(samples[1]["speed_kph"], C9_SpeedSum(Tail(samples)))

C9_MeanSpeed(samples) ==
    IF Len(samples) = 0 THEN Num(0)
    ELSE RDiv(C9_SpeedSum(samples), Num(Len(samples)))

C9_TotalsIgnoreFuelless ==
    /\ ret.total_fuel_L =
         summarize_trip(SelectSeq(call.arg.samples, C9_CarriesFuel),
                        call.arg.fuel_type).total_fuel_L
    /\ ret.total_co2_kg =
         summarize_trip(SelectSeq(call.arg.samples, C9_CarriesFuel),
                        call.arg.fuel_type).total_co2_kg
    /\ ret.trip_time_s =
         summarize_trip(SelectSeq(call.arg.samples, C9_CarriesFuel),
                        call.arg.fuel_type).trip_time_s
    /\ (\A i \in DOMAIN call.arg.samples : ~C9_CarriesFuel(call.arg.samples[i]))
         => /\ ret.total_fuel_L = Num(0)
            /\ ret.total_co2_kg = Num(0)
            /\ ret.trip_time_s = Num(0)

C9_SpeedOverAllReporting ==
    Called("summarize_trip") =>
        /\ ret.avg_speed_kph = C9_MeanSpeed(SelectSeq(call.arg.samples, C9_ReportsSpeed))
        /\ C9_TotalsIgnoreFuelless

\* C9 amended: avg_speed_kph is the mean of speed_kph over the samples that
\* report it and carry fuel_rate_Lph or maf_gps (0 when there are none); a
\* sample without a fuel field adds nothing to the totals nor to the average.
C9_SpeedOverFuelSamples ==
    Called("summarize_trip") =>
        /\ ret.avg_speed_kph = C9_MeanSpeed(SelectSeq(call.arg.samples, C9_Contributes))
        /\ C9_TotalsIgnoreFuelless

\* a sample with a speed and no fuel field next to one with both: the average
\* is the speed of the second
C9_Witness ==
    /\ Called("summarize_trip")
    /\ Len(call.arg.samples) = 2
    /\ DOMAIN call.arg.samples[1] = {"speed_kph"}
    /\ call.arg.samples[1]["speed_kph"] = Num(50)
    /\ DOMAIN call.arg.samples[2] = {"maf_gps", "speed_kph"}
    /\ call.arg.samples[2]["speed_kph"] = Num(60)
    /\ ret.avg_speed_kph = Num(60)
    /\ RPos(ret.total_fuel_L)

\* C10: co2_kg = energy_kWh * region_factor whenever a region factor is given
\* (0 included), and energy_kWh * grid_factor only when it is None.
C10_RegionFactorWhenSupplied ==
    Called("calculate_electric") =>
        ret.co2_kg = RMul(call.arg.energy_kWh,
                          IF call.arg.region_factor # NoneVal
                          THEN call.arg.region_factor
                          ELSE FUEL_PROPERTIES["electric"].grid_factor)

====
